---- MODULE Spec2Model ----
(***************************************************************************)
(* Model of the command orchestration of terraform-provider-ssm            *)
(* (package awstools): RunCommand and the functions it calls,              *)
(* waitForTargetInstances, waitForCommandInvocations, printCommandOutput   *)
(* and GetCommand.  The external services (EC2, SSM, S3) answer            *)
(* nondeterministically; every answer is drawn from a bounded set.         *)
(*                                                                         *)
(* One behaviour is one call of one function of the package: `entry` names *)
(* the function called, and its arguments are drawn in Init.               *)
(*                                                                         *)
(* Spec calls each function with one target list, SpecTargets calls        *)
(* RunCommand with each of the target lists, and SpecConfigure calls the   *)
(* provider's configure with each list of assume_role blocks.              *)
(***************************************************************************)
EXTENDS Integers, Sequences, FiniteSets, TLC

VARIABLES
    entry,            \* the function of the package that was called
    pc,               \* position of the control flow
    executionTimeout, \* RunCommand's argument *executionTimeout
    ssmTargets,       \* RunCommand's argument ssmTargets
    ec2Filters,       \* RunCommand's local ec2Filters
    ssmFilters,       \* RunCommand's local ssmFilters
    sendTargets,      \* <<>> or <<targets>>: the Targets of the SendCommandInput
    rwTimeout,        \* waitForTargetInstances' argument waitTimeout
    iwTimeout,        \* waitForCommandInvocations' argument *timeout
    rw_i,             \* loop index i of waitForTargetInstances
    iw_i,             \* loop index i of waitForCommandInvocations
    ec2Instances,     \* <<>> or <<reservations>>: result of DescribeInstances in this iteration
    ssmInstances,     \* <<>> or <<InstanceInformationList>>: result of DescribeInstanceInformation
    output,           \* <<>> or <<CommandInvocations>>: result of ListCommandInvocations
    rwRet,            \* <<>> or <<err>>: what waitForTargetInstances returned
    sendRet,          \* <<>> or <<err>>: what SendCommand returned
    iwRet,            \* <<>> or <<err>>: what waitForCommandInvocations returned
    printRet,         \* <<>> or <<err>>: what printCommandOutput returned
    ret,              \* <<>> or <<[cmd, err]>>: what RunCommand / GetCommand returned
    printArgs,        \* <<>> until printCommandOutput is called, then <<[s3Bucket, prefix]>>: its arguments
    listed,           \* <<>> or <<outcome>>: what the services answer to the calls before the first GetObject
    fetched,          \* what S3 answered to the GetObject calls, in order
    objects,          \* the keys ListObjectsV2 returned (objects.Contents)
    obj_k,            \* index in objects of the next object to fetch
    s3Calls,          \* the calls made to S3, in order
    logged,           \* the messages printCommandOutput logged for the objects, in order
    msg,              \* <<>> or <<content>>: printCommandOutput's msg in the last iteration
    commands,         \* <<>> or <<[ok, commands]>>: what ListCommands answered to GetCommand
    rwCalls,          \* calls made by waitForTargetInstances, while its results are in scope
    iwCalls,          \* calls made by waitForCommandInvocations, while its results are in scope
    calls,            \* number of SendCommand and of ListCommands calls
    stages,           \* call / return events of the stages, in order
    assume_role,      \* configure: the assume_role blocks of the provider configuration
    region,           \* configure: <<>> or <<region>> of the provider configuration
    assumeRole,       \* configure's local assumeRole
    tfList,           \* expandAssumeRoles' argument
    result,           \* expandAssumeRoles' result so far
    exp_i,            \* expandAssumeRoles' loop index, from 1
    configured        \* <<>> or <<[clients, err]>>: what configure returned

vars == <<entry, pc, executionTimeout, ssmTargets, ec2Filters, ssmFilters,
          sendTargets, rwTimeout, iwTimeout, rw_i, iw_i,
          ec2Instances, ssmInstances, output, rwRet, sendRet, iwRet, printRet, ret,
          printArgs, listed, fetched, objects, obj_k, s3Calls, logged, msg, commands,
          rwCalls, iwCalls, calls, stages,
          assume_role, region, assumeRole, tfList, result, exp_i, configured>>

----------------------------------------------------------------------------
(* Program constants *)

waitTimeout == 600
sleepTime == 10

(* Bounds of the model *)

\* direct calls of a waiter get timeouts of up to MaxPolls polls
MaxPolls == 2
\* reservations in one DescribeInstances result
MaxReservations == 2
\* entries in one DescribeInstanceInformation result
MaxInstances == 2
\* entries in one ListCommandInvocations result
MaxInvocations == 2

----------------------------------------------------------------------------
(* Values *)

SeqsUpTo(S, n) == UNION {[1..k -> S] : k \in 0..n}

\* ssmtypes.PingStatus
PingStatusOnline == "Online"
PingStatuses == {"Online", "ConnectionLost", "Inactive"}

\* ssmtypes.CommandInvocationStatus
InvocationStatuses ==
    {"Pending", "InProgress", "Delayed", "Success",
     "Cancelled", "TimedOut", "Failed", "Cancelling"}

\* A DescribeInstances result: the reservations, each given by the number of
\* its instances.
Ec2Results == SeqsUpTo({1, 2}, MaxReservations)

\* A DescribeInstanceInformation result: the ping status of each entry.
SsmResults == SeqsUpTo(PingStatuses, MaxInstances)

InstanceIdOf(k) == "i-" \o ToString(k)

\* A ListCommandInvocations result: one invocation per instance.
InvocationLists ==
    UNION {{[k \in 1..n |-> [Status |-> f[k], InstanceId |-> InstanceIdOf(k)]] :
               f \in [1..n -> InvocationStatuses]} : n \in 0..MaxInvocations}

\* Timeouts in seconds: whole multiples of the interval and values just below
\* the next multiple.
Timeouts == {a * sleepTime + r : a \in 0..MaxPolls, r \in {0, sleepTime - 1}}

\* Errors.  Nil is Go's nil error; a formatted error keeps its arguments.
Nil == [isNil |-> TRUE, text |-> "", status |-> <<>>, instance |-> ""]
Error(text) == [isNil |-> FALSE, text |-> text, status |-> <<>>, instance |-> ""]

ErrDescribeInstances == Error("DescribeInstances failed")
ErrDescribeInstanceInformation == Error("DescribeInstanceInformation failed")
ErrListCommandInvocations == Error("ListCommandInvocations failed")
ErrSendCommand == Error("SendCommand failed")
ErrListCommands == Error("ListCommands failed")
ErrNotOnline == Error("target instances are not online")
ErrTimedOut == Error("command invocations timed out")

\* The zero value of ssmtypes.Command, and the records ListCommands may return.
ZeroCommand == [CommandId |-> "", Status |-> ""]
Command(id, status) == [CommandId |-> id, Status |-> status]
CommandId == "cmd-1"
CommandLists ==
    {<<>>,
     <<Command(CommandId, "Success")>>,
     <<Command(CommandId, "Failed")>>,
     <<Command(CommandId, "Success"), Command(CommandId, "Failed")>>,
     <<Command(CommandId, "Failed"), Command(CommandId, "Success")>>}

----------------------------------------------------------------------------
(* strings.ToLower(string(invocation.Status)) *)

UpperCase == <<"A", "B", "C", "D", "E", "F", "G", "H", "I", "J", "K", "L", "M",
               "N", "O", "P", "Q", "R", "S", "T", "U", "V", "W", "X", "Y", "Z">>
LowerCase == <<"a", "b", "c", "d", "e", "f", "g", "h", "i", "j", "k", "l", "m",
               "n", "o", "p", "q", "r", "s", "t", "u", "v", "w", "x", "y", "z">>

\* The characters of a status name.
StatusChars(status) ==
    CASE status = "Pending"    -> <<"P", "e", "n", "d", "i", "n", "g">>
      [] status = "InProgress" -> <<"I", "n", "P", "r", "o", "g", "r", "e", "s", "s">>
      [] status = "Delayed"    -> <<"D", "e", "l", "a", "y", "e", "d">>
      [] status = "Success"    -> <<"S", "u", "c", "c", "e", "s", "s">>
      [] status = "Cancelled"  -> <<"C", "a", "n", "c", "e", "l", "l", "e", "d">>
      [] status = "TimedOut"   -> <<"T", "i", "m", "e", "d", "O", "u", "t">>
      [] status = "Failed"     -> <<"F", "a", "i", "l", "e", "d">>
      [] status = "Cancelling" -> <<"C", "a", "n", "c", "e", "l", "l", "i", "n", "g">>

ToLowerChar(c) ==
    IF \E n \in 1..Len(UpperCase) : UpperCase[n] = c
    THEN LowerCase[CHOOSE n \in 1..Len(UpperCase) : UpperCase[n] = c]
    ELSE c

ToLower(chars) == [n \in 1..Len(chars) |-> ToLowerChar(chars[n])]

\* fmt.Errorf("command invocation %s on %s instance", ToLower(status), instanceId)
InvocationError(invocation) ==
    [isNil |-> FALSE,
     text |-> "command invocation %s on %s instance",
     status |-> ToLower(StatusChars(invocation.Status)),
     instance |-> invocation.InstanceId]

----------------------------------------------------------------------------
(* waitForTargetInstances: the computations of one iteration *)

\* Variant: one attempt more than the quotient.
RwAttemptsOneMore(timeout) == timeout \div sleepTime + 1

\* for i := 0; i < waitTimeout/sleepTime; i++
RwAttempts(timeout) == timeout \div sleepTime

\* for _, reservation := range Reservations { ec2InstanceCount += len(reservation.Instances) }
RECURSIVE Ec2InstanceCount(_)
Ec2InstanceCount(reservations) ==
    IF reservations = <<>> THEN 0
    ELSE Head(reservations) + Ec2InstanceCount(Tail(reservations))

\* Variant: every entry counts as online.
OnlineInstanceCountAll(list) == Len(list)

\* for _, instance := range InstanceInformationList { if PingStatus == Online { count += 1 } }
RECURSIVE OnlineInstanceCount(_)
OnlineInstanceCount(list) ==
    IF list = <<>> THEN 0
    ELSE (IF Head(list) = PingStatusOnline THEN 1 ELSE 0) + OnlineInstanceCount(Tail(list))

\* Variant: the test without the guard on an empty agent inventory.
TargetsOnlineNoEmptyCheck(reservations, list) ==
    OnlineInstanceCount(list) = Ec2InstanceCount(reservations)

\* The test of lines 61-81: TRUE when the waiter returns nil in this iteration.
TargetsOnline(reservations, list) ==
    /\ Len(list) > 0
    /\ OnlineInstanceCount(list) = Ec2InstanceCount(reservations)

\* Variant: a failed query is retried after the sleep.
RwRetryOnQueryError(err) == [next |-> "sleep", err |-> Nil]

\* A failed query: log the error and return it.
RwOnQueryError(err) == [next |-> "return", err |-> err]

----------------------------------------------------------------------------
(* waitForCommandInvocations: the computations of one iteration *)

\* Variant: the number of attempts rounded up.
IwAttemptsRoundedUp(timeout) == (timeout + sleepTime - 1) \div sleepTime

\* Variant: at least one attempt is made.
IwAttemptsAtLeastOne(timeout) ==
    IF timeout \div sleepTime = 0 THEN 1 ELSE timeout \div sleepTime

\* for i := 0; i < *timeout/sleepTime; i++
IwAttempts(timeout) == timeout \div sleepTime

IsPendingStatus(status) == status = "Pending" \/ status = "InProgress"

IsFailedStatus(status) ==
    status = "Cancelled" \/ status = "TimedOut" \/ status = "Failed"

\* The loop over output.CommandInvocations, from entry k on, with the pending
\* count so far: returns at the first failed invocation.
RECURSIVE ScanInvocations(_, _, _)
ScanInvocations(list, k, pendingExecutionsCount) ==
    IF k > Len(list)
    THEN [failed |-> FALSE, err |-> Nil, pending |-> pendingExecutionsCount]
    ELSE IF IsPendingStatus(list[k].Status)
    THEN ScanInvocations(list, k + 1, pendingExecutionsCount + 1)
    ELSE IF IsFailedStatus(list[k].Status)
    THEN [failed |-> TRUE, err |-> InvocationError(list[k]),
          pending |-> pendingExecutionsCount]
    ELSE ScanInvocations(list, k + 1, pendingExecutionsCount)

\* Variant: a failed invocation ends the wait only once nothing is pending.
IwAfterListWaitsForPending(list) ==
    IF Len(list) = 0
    THEN [next |-> "sleep", err |-> Nil]
    ELSE IF \E k \in DOMAIN list : IsPendingStatus(list[k].Status)
    THEN [next |-> "sleep", err |-> Nil]
    ELSE IF \E k \in DOMAIN list : IsFailedStatus(list[k].Status)
    THEN [next |-> "return",
          err |-> InvocationError(list[CHOOSE k \in DOMAIN list :
                                          IsFailedStatus(list[k].Status)])]
    ELSE [next |-> "return", err |-> Nil]

\* Variant: an empty list is scanned like any other, and has nothing pending.
IwAfterListEmptyIsDone(list) ==
    LET scan == ScanInvocations(list, 1, 0)
    IN  IF scan.failed THEN [next |-> "return", err |-> scan.err]
        ELSE IF scan.pending = 0 THEN [next |-> "return", err |-> Nil]
        ELSE [next |-> "sleep", err |-> Nil]

\* What one iteration does with a successful ListCommandInvocations result.
IwAfterList(list) ==
    IF Len(list) = 0
    THEN [next |-> "sleep", err |-> Nil]
    ELSE LET scan == ScanInvocations(list, 1, 0)
         IN  IF scan.failed THEN [next |-> "return", err |-> scan.err]
             ELSE IF scan.pending = 0 THEN [next |-> "return", err |-> Nil]
             ELSE [next |-> "sleep", err |-> Nil]

\* A failed ListCommandInvocations: log the error and return it.
IwOnQueryError(err) == [next |-> "return", err |-> err]

----------------------------------------------------------------------------
(* RunCommand: the order of its stages *)


\* EC2 filter names, SSM target keys.
ec2FilterInstanceId == "instance-id"
ec2FilterInstanceStateName == "instance-state-name"
ssmTargetInstanceIds == "InstanceIds"

\* The characters of a target key.
KeyChars(key) ==
    CASE key = "InstanceIds" -> <<"I", "n", "s", "t", "a", "n", "c", "e", "I", "d", "s">>
      [] key = "instanceids" -> <<"i", "n", "s", "t", "a", "n", "c", "e", "i", "d", "s">>
      [] key = "INSTANCEIDS" -> <<"I", "N", "S", "T", "A", "N", "C", "E", "I", "D", "S">>
      [] key = "instance-id" -> <<"i", "n", "s", "t", "a", "n", "c", "e", "-", "i", "d">>
      [] key = "tag:Name"    -> <<"t", "a", "g", ":", "N", "a", "m", "e">>
      [] key = "tag:name"    -> <<"t", "a", "g", ":", "n", "a", "m", "e">>

\* strings.EqualFold on keys of letters and punctuation of ASCII.
EqualFold(s, t) == ToLower(KeyChars(s)) = ToLower(KeyChars(t))

\* ssmtypes.Target
Target(key, values) == [Key |-> key, Values |-> values]

\* The target lists RunCommand is called with.
BaseTargets == <<Target("InstanceIds", <<"i-1", "i-2">>)>>
TargetLists ==
    {<<>>,
     BaseTargets,
     <<Target("instanceids", <<"i-1">>)>>,
     <<Target("tag:Name", <<"web", "db">>)>>,
     <<Target("tag:Name", <<"web">>), Target("InstanceIds", <<"i-2", "i-1">>)>>,
     <<Target("INSTANCEIDS", <<"i-1">>), Target("tag:name", <<"db">>)>>,
     <<Target("instance-id", <<"i-1">>), Target("tag:Name", <<>>)>>}

\* Variant: only the key InstanceIds, as written, is replaced.
Ec2FilterNameExactKey(key) ==
    IF key = ssmTargetInstanceIds THEN ec2FilterInstanceId ELSE key

\* ec2FilterName := target.Key; if strings.EqualFold(*target.Key,
\* ssmTargetInstanceIds) { ec2FilterName = &ec2FilterInstanceId }
Ec2FilterName(key) ==
    IF EqualFold(key, ssmTargetInstanceIds) THEN ec2FilterInstanceId ELSE key

\* ec2Filters after the loop over ssmTargets and the append of the state filter.
Ec2Filters(targets) ==
    [i \in 1..Len(targets) |->
        [Name |-> Ec2FilterName(targets[i].Key), Values |-> targets[i].Values]]
    \o <<[Name |-> ec2FilterInstanceStateName, Values |-> <<"pending", "running">>]>>

\* ssmFilters after the loop over ssmTargets.
SsmFilters(targets) ==
    [i \in 1..Len(targets) |-> [Key |-> targets[i].Key, Values |-> targets[i].Values]]

\* Variant: the caller's execution timeout is passed on.
ReadinessTimeoutFromCaller(execTimeout) == execTimeout

\* The timeout RunCommand passes to waitForTargetInstances.
ReadinessTimeout(execTimeout) == waitTimeout

\* Variant: the output is collected before the invocation wait.
NextStagePrintFirst(stage, err) ==
    CASE stage = "waitForTargetInstances" ->
            IF err.isNil THEN "SendCommand" ELSE "return"
      [] stage = "SendCommand" ->
            IF err.isNil THEN "printCommandOutput" ELSE "return"
      [] stage = "printCommandOutput" -> "waitForCommandInvocations"
      [] stage = "waitForCommandInvocations" ->
            IF err.isNil THEN "GetCommand" ELSE "return"
      [] stage = "GetCommand" -> "return"

\* Variant: a failed invocation wait returns before the output is collected.
NextStageSkipPrintOnError(stage, err) ==
    CASE stage = "waitForTargetInstances" ->
            IF err.isNil THEN "SendCommand" ELSE "return"
      [] stage = "SendCommand" ->
            IF err.isNil THEN "waitForCommandInvocations" ELSE "return"
      [] stage = "waitForCommandInvocations" ->
            IF err.isNil THEN "printCommandOutput" ELSE "return"
      [] stage = "printCommandOutput" ->
            IF err.isNil THEN "GetCommand" ELSE "return"
      [] stage = "GetCommand" -> "return"

\* Variant: a failed SendCommand is logged and the invocation wait goes on.
NextStageIgnoreSendError(stage, err) ==
    CASE stage = "waitForTargetInstances" ->
            IF err.isNil THEN "SendCommand" ELSE "return"
      [] stage = "SendCommand" -> "waitForCommandInvocations"
      [] stage = "waitForCommandInvocations" -> "printCommandOutput"
      [] stage = "printCommandOutput" ->
            IF err.isNil THEN "GetCommand" ELSE "return"
      [] stage = "GetCommand" -> "return"

\* What RunCommand does when `stage` has finished; err is the error RunCommand
\* holds at that point (after printCommandOutput: still the invocation waiter's).
NextStage(stage, err) ==
    CASE stage = "waitForTargetInstances" ->
            IF err.isNil THEN "SendCommand" ELSE "return"
      [] stage = "SendCommand" ->
            IF err.isNil THEN "waitForCommandInvocations" ELSE "return"
      [] stage = "waitForCommandInvocations" -> "printCommandOutput"
      [] stage = "printCommandOutput" ->
            IF err.isNil THEN "GetCommand" ELSE "return"
      [] stage = "GetCommand" -> "return"

\* The control position at which a stage starts.
StagePc(stage) ==
    CASE stage = "waitForTargetInstances" -> "rw_loop"
      [] stage = "SendCommand" -> "SendCommand"
      [] stage = "waitForCommandInvocations" -> "iw_loop"
      [] stage = "printCommandOutput" -> "printCommandOutput"
      [] stage = "GetCommand" -> "GetCommand"
      [] stage = "return" -> "done"

Call(stage) == <<stage, "call">>
Return(stage) == <<stage, "return">>

----------------------------------------------------------------------------
(* printCommandOutput and GetCommand: their computations *)

\* const maxLogMsgSize, scaled down from 65536 bytes.
maxLogMsgSize == 2

\* objects in one ListObjectsV2 result
MaxObjects == 2
\* an object's content has at most MaxChunks * maxLogMsgSize + 1 bytes
MaxChunks == 2

\* A *string argument: <<>> is nil.
Buckets == {<<>>, <<"">>, <<"bucket">>}
Prefixes == {<<>>, <<"out">>}

\* Content of n bytes; byte k of a content is k, so that every byte of a
\* content differs from the others.
Content(n) == [k \in 1..n |-> k]
Contents == {Content(n) : n \in 0..(MaxChunks * maxLogMsgSize + 1)}

\* Variant: only a nil bucket counts as absent.
BucketAbsentNilOnly(s3Bucket) == s3Bucket = <<>>

\* if s3Bucket == nil || *s3Bucket == ""
BucketAbsent(s3Bucket) == s3Bucket = <<>> \/ s3Bucket[1] = ""

\* keyPrefix := commandId; if prefix != nil { keyPrefix = *prefix + "/" + commandId }
KeyPrefix(prefix, commandId) ==
    IF prefix = <<>> THEN commandId ELSE prefix[1] \o "/" \o commandId

\* The keys of a listing of n objects under keyPrefix.
ObjectKeys(keyPrefix, n) == [k \in 1..n |-> keyPrefix \o "/" \o ToString(k)]

\* Variant: no piece is logged for an empty remainder.
ChunksNoEmptyTail(m) ==
    LET n == Len(m) \div maxLogMsgSize
    IN  [i \in 1..n |-> SubSeq(m, (i - 1) * maxLogMsgSize + 1, i * maxLogMsgSize)]
        \o (IF n * maxLogMsgSize = Len(m) THEN <<>>
            ELSE <<SubSeq(m, n * maxLogMsgSize + 1, Len(m))>>)

\* Variant: the remainder is logged from the start of the last full piece.
ChunksOverlappingTail(m) ==
    LET n == Len(m) \div maxLogMsgSize
    IN  [i \in 1..n |-> SubSeq(m, (i - 1) * maxLogMsgSize + 1, i * maxLogMsgSize)]
        \o <<SubSeq(m, (IF n = 0 THEN 0 ELSE n - 1) * maxLogMsgSize + 1, Len(m))>>

\* The pieces logged for a message: n pieces of maxLogMsgSize bytes, then the rest.
Chunks(m) ==
    LET n == Len(m) \div maxLogMsgSize
    IN  [i \in 1..n |-> SubSeq(m, (i - 1) * maxLogMsgSize + 1, i * maxLogMsgSize)]
        \o <<SubSeq(m, n * maxLogMsgSize + 1, Len(m))>>

S3Call(api, bucket, key) == [api |-> api, bucket |-> bucket, key |-> key]

ErrGetBucketLocation == Error("GetBucketLocation failed")
ErrLoadDefaultConfig == Error("LoadDefaultConfig failed")
ErrListObjectsV2 == Error("ListObjectsV2 failed")

\* What an answer of S3 to the calls before the first GetObject is: the call
\* that fails ("" when none does) and the number of objects listed.
ListingOutcomes ==
    {[fails |-> f, n |-> 0] : f \in {"GetBucketLocation", "LoadDefaultConfig", "ListObjectsV2"}}
    \cup {[fails |-> "", n |-> n] : n \in 0..MaxObjects}

\* Variant: a failed GetBucketLocation is ignored and the listing goes on.
PrintListingIgnoresLocationError(s3Bucket, prefix, commandId, outcome) ==
    IF BucketAbsent(s3Bucket)
    THEN [s3Calls |-> <<>>, returns |-> TRUE, err |-> Nil, objects |-> <<>>]
    ELSE LET keyPrefix == KeyPrefix(prefix, commandId)
             location == S3Call("GetBucketLocation", s3Bucket[1], "")
             listing == S3Call("ListObjectsV2", s3Bucket[1], keyPrefix)
         IN  IF outcome.fails = "GetBucketLocation"
             THEN [s3Calls |-> <<location, listing>>, returns |-> TRUE,
                   err |-> Nil, objects |-> <<>>]
             ELSE IF outcome.fails = "LoadDefaultConfig"
             THEN [s3Calls |-> <<location>>, returns |-> TRUE,
                   err |-> ErrLoadDefaultConfig, objects |-> <<>>]
             ELSE IF outcome.fails = "ListObjectsV2"
             THEN [s3Calls |-> <<location, listing>>, returns |-> TRUE,
                   err |-> ErrListObjectsV2, objects |-> <<>>]
             ELSE [s3Calls |-> <<location, listing>>, returns |-> outcome.n = 0,
                   err |-> Nil, objects |-> ObjectKeys(keyPrefix, outcome.n)]

\* printCommandOutput up to the loop over objects.Contents: the S3 calls made,
\* whether the function returns before the loop and with which error, and the
\* keys to fetch.
PrintListing(s3Bucket, prefix, commandId, outcome) ==
    IF BucketAbsent(s3Bucket)
    THEN [s3Calls |-> <<>>, returns |-> TRUE, err |-> Nil, objects |-> <<>>]
    ELSE LET keyPrefix == KeyPrefix(prefix, commandId)
             location == S3Call("GetBucketLocation", s3Bucket[1], "")
             listing == S3Call("ListObjectsV2", s3Bucket[1], keyPrefix)
         IN  IF outcome.fails = "GetBucketLocation"
             THEN [s3Calls |-> <<location>>, returns |-> TRUE,
                   err |-> ErrGetBucketLocation, objects |-> <<>>]
             ELSE IF outcome.fails = "LoadDefaultConfig"
             THEN [s3Calls |-> <<location>>, returns |-> TRUE,
                   err |-> ErrLoadDefaultConfig, objects |-> <<>>]
             ELSE IF outcome.fails = "ListObjectsV2"
             THEN [s3Calls |-> <<location, listing>>, returns |-> TRUE,
                   err |-> ErrListObjectsV2, objects |-> <<>>]
             ELSE [s3Calls |-> <<location, listing>>, returns |-> outcome.n = 0,
                   err |-> Nil, objects |-> ObjectKeys(keyPrefix, outcome.n)]

\* What S3 answers to one GetObject: the call fails, or reading the body
\* fails, or the body is read.
ObjectOutcomes ==
    {[get |-> FALSE, read |-> FALSE, body |-> <<>>],
     [get |-> TRUE, read |-> FALSE, body |-> <<>>]}
    \cup {[get |-> TRUE, read |-> TRUE, body |-> c] : c \in Contents}

\* bytes, err := io.ReadAll(object.Body); msg := string(bytes): the content
\* when both GetObject and the read succeeded, no msg otherwise.
ReadMsg(outcome) == IF outcome.get /\ outcome.read THEN <<outcome.body>> ELSE <<>>

\* The messages logged for one object: its key, then the pieces of its content.
LogObject(key, outcome) ==
    IF outcome.get /\ outcome.read
    THEN <<[key |-> key, chunks |-> Chunks(outcome.body)]>>
    ELSE <<>>

\* Variant: the last record of the answer is returned.
GetCommandResultLast(ok, cmds) ==
    IF ~ok THEN [cmd |-> ZeroCommand, err |-> ErrListCommands]
    ELSE IF Len(cmds) = 0 THEN [cmd |-> ZeroCommand, err |-> Nil]
    ELSE [cmd |-> cmds[Len(cmds)], err |-> Nil]

\* GetCommand's result for a ListCommands answer.
GetCommandResult(ok, cmds) ==
    IF ~ok THEN [cmd |-> ZeroCommand, err |-> ErrListCommands]
    ELSE IF Len(cmds) = 0 THEN [cmd |-> ZeroCommand, err |-> Nil]
    ELSE [cmd |-> cmds[1], err |-> Nil]

----------------------------------------------------------------------------
(* The state machine *)

Entries == {"RunCommand", "waitForTargetInstances", "waitForCommandInvocations",
            "printCommandOutput", "GetCommand"}

NoRwCalls == [DescribeInstances |-> 0, DescribeInstanceInformation |-> 0, Sleep |-> 0]
\* EmptyResults: the ListCommandInvocations calls that returned an empty list.
NoIwCalls == [ListCommandInvocations |-> 0, EmptyResults |-> 0, Sleep |-> 0]
NoCalls == [SendCommand |-> 0, ListCommands |-> 0]

Bump(counts, api) == [counts EXCEPT ![api] = @ + 1]

\* The state at the call of one of `entries`; RunCommand gets its arguments
\* from execTimeouts and targetLists.
Start(entries, execTimeouts, targetLists) ==
    /\ entry \in entries
    /\ pc = IF entry = "waitForTargetInstances" THEN "rw_loop"
            ELSE IF entry = "waitForCommandInvocations" THEN "iw_loop"
            ELSE entry
    /\ executionTimeout \in (IF entry = "RunCommand" THEN execTimeouts ELSE {0})
    /\ ssmTargets \in (IF entry = "RunCommand" THEN targetLists ELSE {<<>>})
    /\ ec2Filters = <<>>
    /\ ssmFilters = <<>>
    /\ sendTargets = <<>>
    /\ rwTimeout \in (IF entry = "waitForTargetInstances" THEN Timeouts ELSE {0})
    /\ iwTimeout \in (IF entry = "waitForCommandInvocations" THEN Timeouts ELSE {0})
    /\ rw_i = 0
    /\ iw_i = 0
    /\ ec2Instances = <<>>
    /\ ssmInstances = <<>>
    /\ output = <<>>
    /\ rwRet = <<>>
    /\ sendRet = <<>>
    /\ iwRet = <<>>
    /\ printRet = <<>>
    /\ ret = <<>>
    /\ printArgs = <<>>
    /\ listed = <<>>
    /\ fetched = <<>>
    /\ objects = <<>>
    /\ obj_k = 1
    /\ s3Calls = <<>>
    /\ logged = <<>>
    /\ msg = <<>>
    /\ commands = <<>>
    /\ rwCalls = NoRwCalls
    /\ iwCalls = NoIwCalls
    /\ calls = NoCalls
    /\ stages = IF entry = "RunCommand" THEN <<>> ELSE <<Call(entry)>>

\* configure is not called.
NoConfigure ==
    /\ assume_role = <<>>
    /\ region = <<>>
    /\ assumeRole = <<>>
    /\ tfList = <<>>
    /\ result = <<>>
    /\ exp_i = 1
    /\ configured = <<>>

Init == Start(Entries, Timeouts, {BaseTargets}) /\ NoConfigure

\* RunCommand called with each of the target lists.
InitTargets == Start({"RunCommand"}, {sleepTime}, TargetLists) /\ NoConfigure

\* `stage` has returned err.  Within RunCommand the next stage starts, or
\* RunCommand returns the error with a zero-value record; a function called
\* directly is done.
Continue(stage, err) ==
    IF entry = "RunCommand"
    THEN LET nxt == NextStage(stage, err)
         IN  /\ pc' = StagePc(nxt)
             /\ ret' = IF nxt = "return"
                       THEN <<[cmd |-> ZeroCommand, err |-> err]>> ELSE ret
             /\ stages' = stages \o <<Return(stage)>>
                          \o (IF nxt = "return" THEN <<>> ELSE <<Call(nxt)>>)
             /\ iwTimeout' = IF nxt = "waitForCommandInvocations"
                             THEN executionTimeout ELSE iwTimeout
    ELSE /\ pc' = "done"
         /\ ret' = ret
         /\ stages' = stages \o <<Return(stage)>>
         /\ iwTimeout' = iwTimeout

\* Groups of variables, for the UNCHANGED clauses.
argVars == <<entry, executionTimeout, ssmTargets>>
filterVars == <<ec2Filters, ssmFilters, sendTargets>>
configureVars == <<assume_role, region, assumeRole, tfList, result, exp_i, configured>>
getVars == <<commands>>
rwVars == <<rwTimeout, rw_i, ec2Instances, ssmInstances, rwCalls>>
iwVars == <<iw_i, output, iwCalls>>
printVars == <<printArgs, listed, fetched, objects, obj_k, s3Calls, logged, msg>>
retVars == <<rwRet, sendRet, iwRet, printRet>>


\* RunCommand up to its call of waitForTargetInstances.
RunCommand ==
    /\ pc = "RunCommand"
    /\ ec2Filters' = Ec2Filters(ssmTargets)
    /\ ssmFilters' = SsmFilters(ssmTargets)
    /\ rwTimeout' = ReadinessTimeout(executionTimeout)
    /\ pc' = "rw_loop"
    /\ stages' = stages \o <<Call("waitForTargetInstances")>>
    /\ UNCHANGED <<argVars, configureVars, getVars, sendTargets, rw_i, ec2Instances, ssmInstances, rwCalls, iwVars,
                   printVars, ret, iwTimeout, retVars, calls>>

\* waitForTargetInstances: the loop test fails, the waiter gives up.
RwExhausted ==
    /\ pc = "rw_loop"
    /\ ~(rw_i < RwAttempts(rwTimeout))
    /\ rwRet' = <<ErrNotOnline>>
    /\ Continue("waitForTargetInstances", ErrNotOnline)
    /\ UNCHANGED <<argVars, configureVars, getVars, filterVars, rwVars, iwVars, printVars, sendRet, iwRet, printRet, calls>>

\* waitForTargetInstances: one iteration starts with DescribeInstances.
RwDescribeInstances ==
    /\ pc = "rw_loop"
    /\ rw_i < RwAttempts(rwTimeout)
    /\ rwCalls' = Bump(rwCalls, "DescribeInstances")
    /\ \/ \E reservations \in Ec2Results :
             /\ ec2Instances' = <<reservations>>
             /\ pc' = "rw_info"
             /\ UNCHANGED <<rwRet, ret, stages, iwTimeout>>
       \/ LET r == RwOnQueryError(ErrDescribeInstances)
          IN  /\ ec2Instances' = <<>>
              /\ IF r.next = "return"
                 THEN /\ rwRet' = <<r.err>>
                      /\ Continue("waitForTargetInstances", r.err)
                 ELSE /\ pc' = "rw_sleep"
                      /\ UNCHANGED <<rwRet, ret, stages, iwTimeout>>
    /\ UNCHANGED <<argVars, configureVars, getVars, filterVars, rwTimeout, rw_i, ssmInstances, iwVars, printVars,
                   sendRet, iwRet, printRet, calls>>

\* waitForTargetInstances: DescribeInstanceInformation and the rest of the
\* iteration, up to the return or the sleep.
RwDescribeInstanceInformation ==
    /\ pc = "rw_info"
    /\ rwCalls' = Bump(rwCalls, "DescribeInstanceInformation")
    /\ \/ \E list \in SsmResults :
             /\ ssmInstances' = <<list>>
             /\ IF TargetsOnline(ec2Instances[1], list)
                THEN /\ rwRet' = <<Nil>>
                     /\ Continue("waitForTargetInstances", Nil)
                ELSE /\ pc' = "rw_sleep"
                     /\ UNCHANGED <<rwRet, ret, stages, iwTimeout>>
       \/ LET r == RwOnQueryError(ErrDescribeInstanceInformation)
          IN  /\ ssmInstances' = <<>>
              /\ IF r.next = "return"
                 THEN /\ rwRet' = <<r.err>>
                      /\ Continue("waitForTargetInstances", r.err)
                 ELSE /\ pc' = "rw_sleep"
                      /\ UNCHANGED <<rwRet, ret, stages, iwTimeout>>
    /\ UNCHANGED <<argVars, configureVars, getVars, filterVars, rwTimeout, rw_i, ec2Instances, iwVars, printVars,
                   sendRet, iwRet, printRet, calls>>

\* waitForTargetInstances: time.Sleep, then the next iteration, whose results
\* are fresh variables.
RwSleep ==
    /\ pc = "rw_sleep"
    /\ rwCalls' = Bump(rwCalls, "Sleep")
    /\ rw_i' = rw_i + 1
    /\ ec2Instances' = <<>>
    /\ ssmInstances' = <<>>
    /\ pc' = "rw_loop"
    /\ UNCHANGED <<argVars, configureVars, getVars, filterVars, rwTimeout, iwVars, printVars, ret, stages, iwTimeout,
                   retVars, calls>>

\* RunCommand: SendCommand.  The readiness waiter's locals are out of scope
\* from here on.
SendCommand ==
    /\ pc = "SendCommand"
    /\ calls' = Bump(calls, "SendCommand")
    /\ sendTargets' = <<ssmTargets>>
    /\ rw_i' = 0
    /\ ec2Instances' = <<>>
    /\ ssmInstances' = <<>>
    /\ rwCalls' = NoRwCalls
    /\ \E err \in {Nil, ErrSendCommand} :
          /\ sendRet' = <<err>>
          /\ Continue("SendCommand", err)
    /\ UNCHANGED <<argVars, configureVars, getVars, ec2Filters, ssmFilters, rwTimeout, iwVars, printVars,
                   rwRet, iwRet, printRet>>

\* waitForCommandInvocations: the loop test fails, the waiter gives up.
IwExhausted ==
    /\ pc = "iw_loop"
    /\ ~(iw_i < IwAttempts(iwTimeout))
    /\ iwRet' = <<ErrTimedOut>>
    /\ Continue("waitForCommandInvocations", ErrTimedOut)
    /\ UNCHANGED <<argVars, configureVars, getVars, filterVars, rwVars, iwVars, printVars, rwRet, sendRet, printRet, calls>>

\* waitForCommandInvocations: what follows an answer of ListCommandInvocations,
\* `out` (<<>> when the call failed), when the iteration goes on as `step` says.
IwAnswered(out, step) ==
    /\ output' = out
    /\ iwCalls' = IF out = <<<<>>>>
                  THEN Bump(Bump(iwCalls, "ListCommandInvocations"), "EmptyResults")
                  ELSE Bump(iwCalls, "ListCommandInvocations")
    /\ IF step.next = "return"
       THEN /\ iwRet' = <<step.err>>
            /\ Continue("waitForCommandInvocations", step.err)
       ELSE /\ pc' = "iw_sleep"
            /\ UNCHANGED <<iwRet, ret, stages, iwTimeout>>

\* waitForCommandInvocations: ListCommandInvocations and the rest of the
\* iteration, up to the return or the sleep.
IwListCommandInvocations ==
    /\ pc = "iw_loop"
    /\ iw_i < IwAttempts(iwTimeout)
    /\ \/ IwAnswered(<<>>, IwOnQueryError(ErrListCommandInvocations))
       \/ \E list \in InvocationLists : IwAnswered(<<list>>, IwAfterList(list))
    /\ UNCHANGED <<argVars, configureVars, getVars, filterVars, rwVars, iw_i, printVars, rwRet, sendRet, printRet, calls>>

\* waitForCommandInvocations: time.Sleep, then the next iteration, whose
\* result is a fresh variable.
IwSleep ==
    /\ pc = "iw_sleep"
    /\ iwCalls' = Bump(iwCalls, "Sleep")
    /\ iw_i' = iw_i + 1
    /\ output' = <<>>
    /\ pc' = "iw_loop"
    /\ UNCHANGED <<argVars, configureVars, getVars, filterVars, rwVars, printVars, ret, stages, iwTimeout, retVars,
                   calls>>

\* The error RunCommand's variable err holds after the invocation wait.
HeldErr == IF iwRet = <<>> THEN Nil ELSE iwRet[1]

\* printCommandOutput up to the loop over the listed objects.  The invocation
\* waiter's locals are out of scope once RunCommand has called it.
PrintCommandOutput ==
    /\ pc = "printCommandOutput"
    /\ IF entry = "RunCommand"
       THEN /\ iw_i' = 0
            /\ output' = <<>>
            /\ iwCalls' = NoIwCalls
       ELSE UNCHANGED iwVars
    /\ \E s3Bucket \in Buckets, prefix \in Prefixes, outcome \in ListingOutcomes :
          LET p == PrintListing(s3Bucket, prefix, CommandId, outcome)
          IN  /\ printArgs' = <<[s3Bucket |-> s3Bucket, prefix |-> prefix]>>
              /\ listed' = <<outcome>>
              /\ s3Calls' = s3Calls \o p.s3Calls
              /\ objects' = p.objects
              /\ IF p.returns
                 THEN /\ printRet' = <<p.err>>
                      /\ Continue("printCommandOutput", HeldErr)
                 ELSE /\ pc' = "print_get"
                      /\ UNCHANGED <<printRet, ret, stages, iwTimeout>>
    /\ UNCHANGED <<argVars, configureVars, getVars, filterVars, rwVars, fetched, obj_k, logged, msg, rwRet, sendRet, iwRet, calls>>

\* printCommandOutput: one iteration of the loop over the listed objects, and
\* the return after the last one.
PrintGetObject ==
    /\ pc = "print_get"
    /\ \E outcome \in ObjectOutcomes :
          /\ s3Calls' = Append(s3Calls, S3Call("GetObject", s3Calls[1].bucket, objects[obj_k]))
          /\ logged' = logged \o LogObject(objects[obj_k], outcome)
          /\ msg' = ReadMsg(outcome)
          /\ fetched' = Append(fetched, [get |-> outcome.get, read |-> outcome.read])
    /\ obj_k' = obj_k + 1
    /\ IF obj_k = Len(objects)
       THEN /\ printRet' = <<Nil>>
            /\ Continue("printCommandOutput", HeldErr)
       ELSE UNCHANGED <<pc, printRet, ret, stages, iwTimeout>>
    /\ UNCHANGED <<argVars, configureVars, getVars, filterVars, rwVars, iwVars, printArgs, listed, objects, rwRet, sendRet, iwRet, calls>>

\* GetCommand: ListCommands, and RunCommand's return of its result.
GetCommand ==
    /\ pc = "GetCommand"
    /\ calls' = Bump(calls, "ListCommands")
    /\ \E r \in {[ok |-> FALSE, commands |-> <<>>]}
               \cup {[ok |-> TRUE, commands |-> l] : l \in CommandLists} :
          /\ commands' = <<r>>
          /\ ret' = <<GetCommandResult(r.ok, r.commands)>>
    /\ pc' = "done"
    /\ stages' = stages \o <<Return("GetCommand")>>
    /\ UNCHANGED <<argVars, configureVars, filterVars, rwVars, iwVars, printVars, iwTimeout, retVars>>

Next ==
    \/ RunCommand
    \/ RwExhausted
    \/ RwDescribeInstances
    \/ RwDescribeInstanceInformation
    \/ RwSleep
    \/ SendCommand
    \/ IwExhausted
    \/ IwListCommandInvocations
    \/ IwSleep
    \/ PrintCommandOutput
    \/ PrintGetObject
    \/ GetCommand

Spec == Init /\ [][Next]_vars

SpecTargets == InitTargets /\ [][Next]_vars

\* RunCommand called with each of the timeouts.
InitRunCommand == Start({"RunCommand"}, Timeouts, {BaseTargets}) /\ NoConfigure

\* Every external call returns and every sleep ends: a step that can be
\* taken is taken.
SpecRunCommand == InitRunCommand /\ [][Next]_vars /\ WF_vars(Next)

----------------------------------------------------------------------------
(* The provider's configure, with expandAssumeRoles and expandAssumeRole *)

\* assume_role blocks in one provider configuration
MaxBlocks == 2

\* An element of the assume_role list: nil, or a map that may hold role_arn.
NilBlock == [isNil |-> TRUE, has_role_arn |-> FALSE, role_arn |-> ""]
Block(has, arn) == [isNil |-> FALSE, has_role_arn |-> has, role_arn |-> arn]
Blocks == {NilBlock, Block(FALSE, ""), Block(TRUE, ""), Block(TRUE, "arn:aws:iam::1:role/r")}
BlockLists == SeqsUpTo(Blocks, MaxBlocks)
Regions == {<<>>, <<"eu-west-1">>}

\* awsbase.AssumeRole{}
ZeroRole == [RoleARN |-> ""]

\* diag.Errorf texts; "" is no error.
DiagRoleArn == "role_arn"
DiagOnlyOne == "Only 1 assume_role is supported"
DiagLoadDefaultConfig == "LoadDefaultConfig failed"

\* if s, ok := l["role_arn"]; !ok || s == ""
RoleArnMissing(block) == ~block.has_role_arn \/ block.role_arn = ""

\* configure's handling of the assume_role list: return the role_arn error,
\* call expandAssumeRoles, or go on without a role.
ConfigureAssumeRole(v) ==
    IF Len(v) = 1
    THEN IF v[1].isNil THEN "error"
         ELSE IF RoleArnMissing(v[1]) THEN "error"
         ELSE "expand"
    ELSE IF Len(v) > 1 THEN "expand"
    ELSE "none"

\* expandAssumeRole: the role of a map, or the role_arn error.
ExpandAssumeRole(tfMap) ==
    IF tfMap.has_role_arn /\ tfMap.role_arn # ""
    THEN [result |-> [RoleARN |-> tfMap.role_arn], err |-> ""]
    ELSE [result |-> ZeroRole, err |-> DiagRoleArn]

\* configure returns.
ConfigureReturn(clients, err) ==
    /\ configured' = <<[clients |-> clients, err |-> err]>>
    /\ pc' = "done"
    /\ stages' = stages \o <<Return("configure")>>

\* The variables of RunCommand and of the functions it calls.
commandVars ==
    <<argVars, getVars, filterVars, rwVars, iwVars, printVars, retVars, ret,
      iwTimeout, calls>>

\* configure up to the call of expandAssumeRoles.
Configure ==
    /\ pc = "configure"
    /\ LET todo == ConfigureAssumeRole(assume_role)
       IN  IF todo = "error"
           THEN /\ ConfigureReturn(<<>>, DiagRoleArn)
                /\ UNCHANGED <<tfList, result>>
           ELSE IF todo = "expand"
           THEN /\ tfList' = assume_role
                /\ result' = [i \in 1..Len(assume_role) |-> ZeroRole]
                /\ pc' = "expandAssumeRoles"
                /\ UNCHANGED <<configured, stages>>
           ELSE /\ pc' = "configure_clients"
                /\ UNCHANGED <<tfList, result, configured, stages>>
    /\ UNCHANGED <<commandVars, assume_role, region, assumeRole, exp_i>>

\* expandAssumeRoles: one iteration of the loop over tfList, or its return,
\* and configure's handling of what it returns.
ExpandAssumeRoles ==
    /\ pc = "expandAssumeRoles"
    /\ IF exp_i <= Len(tfList) /\ ~tfList[exp_i].isNil
       THEN LET x == ExpandAssumeRole(tfList[exp_i])
            IN  IF x.err # ""
                THEN /\ ConfigureReturn(<<>>, x.err)
                     /\ UNCHANGED <<result, exp_i, assumeRole>>
                ELSE /\ result' = [result EXCEPT ![exp_i] = x.result]
                     /\ exp_i' = exp_i + 1
                     /\ UNCHANGED <<pc, assumeRole, configured, stages>>
       ELSE /\ assumeRole' = result
            /\ pc' = "configure_clients"
            /\ UNCHANGED <<result, exp_i, configured, stages>>
    /\ UNCHANGED <<commandVars, assume_role, region, tfList>>

\* configure from the test of len(assumeRole) to its return.
ConfigureClients ==
    /\ pc = "configure_clients"
    /\ IF Len(assumeRole) > 1
       THEN ConfigureReturn(<<>>, DiagOnlyOne)
       ELSE \E loaded \in BOOLEAN :
               IF ~loaded
               THEN ConfigureReturn(<<>>, DiagLoadDefaultConfig)
               ELSE ConfigureReturn(
                        <<[region |-> region,
                           assumed |-> IF Len(assumeRole) = 1
                                       THEN <<assumeRole[1].RoleARN>> ELSE <<>>]>>,
                        "")
    /\ UNCHANGED <<commandVars, assume_role, region, assumeRole, tfList, result, exp_i>>

InitConfigure ==
    /\ Start({"configure"}, {0}, {<<>>})
    /\ assume_role \in BlockLists
    /\ region \in Regions
    /\ assumeRole = <<>>
    /\ tfList = <<>>
    /\ result = <<>>
    /\ exp_i = 1
    /\ configured = <<>>

NextConfigure ==
    \/ Configure
    \/ ExpandAssumeRoles
    \/ ConfigureClients

SpecConfigure == InitConfigure /\ [][NextConfigure]_vars

----------------------------------------------------------------------------
(* Properties.  The readiness waiter's results and counts are in scope until *)
(* SendCommand is called, the invocation waiter's until printCommandOutput   *)
(* is called.                                                                *)

RwPcs == {"rw_loop", "rw_info", "rw_sleep"}
IwPcs == {"iw_loop", "iw_sleep"}

\* Both queries of the current attempt of waitForTargetInstances were answered.
RwBothAnswered == ec2Instances # <<>> /\ ssmInstances # <<>>

\* The compute instances of the answer, one pair per instance of a reservation.
InstancesSeen ==
    UNION {{<<r, k>> : k \in 1..ec2Instances[1][r]} : r \in DOMAIN ec2Instances[1]}

\* The entries of the agent inventory that are online.
OnlineSeen == {k \in DOMAIN ssmInstances[1] : ssmInstances[1][k] = "Online"}

IwInScope ==
    pc \in IwPcs \/ pc = "printCommandOutput" \/ entry = "waitForCommandInvocations"

FailedSeen ==
    {k \in DOMAIN output[1] : output[1][k].Status \in {"Cancelled", "TimedOut", "Failed"}}

PendingSeen ==
    {k \in DOMAIN output[1] : output[1][k].Status \in {"Pending", "InProgress"}}

\* The lower-cased name of a failed status.
LoweredName(status) ==
    CASE status = "Cancelled" -> <<"c", "a", "n", "c", "e", "l", "l", "e", "d">>
      [] status = "TimedOut"  -> <<"t", "i", "m", "e", "d", "o", "u", "t">>
      [] status = "Failed"    -> <<"f", "a", "i", "l", "e", "d">>

\* n = floor(t / 10)
IsFloorOfTenth(n, t) == n * 10 <= t /\ t < (n + 1) * 10

IsPrefix(s, t) == Len(s) <= Len(t) /\ \A k \in DOMAIN s : s[k] = t[k]

Count(s, e) == Cardinality({k \in DOMAIN s : s[k] = e})

\* C1: at every attempt of waitForTargetInstances whose two queries were
\* answered, the waiter returns nil if and only if the agent inventory is not
\* empty and its number of Online entries equals the number of compute
\* instances summed over the reservations; otherwise it has not returned and
\* is about to sleep before the next attempt.  It returns nil only so.
C1_ReadyIffOnlineEqualsCount ==
    /\ RwBothAnswered =>
          IF ssmInstances[1] # <<>> /\ Cardinality(OnlineSeen) = Cardinality(InstancesSeen)
          THEN rwRet = <<Nil>> /\ pc \notin RwPcs
          ELSE /\ rwRet = <<>>
               /\ pc = "rw_sleep"
               /\ rwCalls.Sleep = rw_i
               /\ (rw_i + 1) * 10 <= rwTimeout
    /\ (rwRet = <<Nil>> /\ sendRet = <<>>) => RwBothAnswered
    /\ pc = "rw_loop" =>
          rwCalls.Sleep = rw_i /\ rwCalls.DescribeInstances = rw_i

\* C1 witness: after at least one attempt that was not ready, two instances in
\* two reservations are both online and the waiter has returned nil.
C1_Witness ==
    /\ rwRet = <<Nil>>
    /\ rw_i >= 1
    /\ ec2Instances = <<(<<1, 1>>)>>
    /\ ssmInstances = <<(<<"Online", "Online">>)>>

\* C2: when a poll of waitForCommandInvocations returns a list holding an
\* invocation that is Cancelled, TimedOut or Failed, the waiter has returned
\* at that poll, with no sleep and no further ListCommandInvocations call,
\* an error that names the instance and the lower-cased status of a failed
\* invocation of the list, whatever the other invocations are.
C2_FailedInvocationFailsAtOnce ==
    (output # <<>> /\ FailedSeen # {}) =>
        /\ iwRet # <<>>
        /\ \E k \in FailedSeen :
              iwRet[1] = [isNil |-> FALSE,
                          text |-> "command invocation %s on %s instance",
                          status |-> LoweredName(output[1][k].Status),
                          instance |-> output[1][k].InstanceId]
        /\ pc \notin IwPcs
        /\ iwCalls.ListCommandInvocations = iw_i + 1
        /\ iwCalls.Sleep = iw_i

\* C2 witness: at the second poll the first invocation is still Pending and
\* the second has TimedOut; the error names the second.
C2_Witness ==
    /\ iw_i = 1
    /\ output # <<>>
    /\ Len(output[1]) = 2
    /\ output[1][1].Status = "Pending"
    /\ output[1][2].Status = "TimedOut"
    /\ iwRet # <<>>
    /\ iwRet[1].instance = "i-2"
    /\ iwRet[1].status = <<"t", "i", "m", "e", "d", "o", "u", "t">>

\* C3: when waitForCommandInvocations returns nil, every invocation of the
\* last list it observed has a terminal status (Success, Cancelled, TimedOut
\* or Failed).
C3_SuccessOnlyWhenAllTerminal ==
    (iwRet = <<Nil>> /\ output # <<>>) =>
        \A k \in DOMAIN output[1] :
            output[1][k].Status \in {"Success", "Cancelled", "TimedOut", "Failed"}

\* C4 as stated: when waitForTargetInstances returns nil, the agent inventory
\* has as many entries as there are compute instances and every entry is
\* Online; inventories of different sizes only make the waiter wait.
C4_SuccessMeansEqualSizesAllOnline ==
    /\ (rwRet = <<Nil>> /\ RwBothAnswered) =>
          /\ Len(ssmInstances[1]) = Cardinality(InstancesSeen)
          /\ \A k \in DOMAIN ssmInstances[1] : ssmInstances[1][k] = "Online"
    /\ (RwBothAnswered /\ Len(ssmInstances[1]) # Cardinality(InstancesSeen)) =>
          rwRet = <<>> /\ pc = "rw_sleep"

\* C4 as amended: when waitForTargetInstances returns nil, the agent inventory
\* it observed last is not empty and its number of Online entries equals the
\* number of compute instances (so it has at least that many entries); and
\* inventories of different sizes never produce an error: the waiter waits,
\* or returns nil when the Online entries are as many as the compute instances.
C4_SuccessMeansOnlineCountEqualsInstances ==
    /\ (rwRet = <<Nil>> /\ sendRet = <<>>) =>
          /\ RwBothAnswered
          /\ ssmInstances[1] # <<>>
          /\ Cardinality(OnlineSeen) = Cardinality(InstancesSeen)
          /\ Len(ssmInstances[1]) >= Cardinality(InstancesSeen)
    /\ (RwBothAnswered /\ Len(ssmInstances[1]) # Cardinality(InstancesSeen)) =>
          \/ rwRet = <<>> /\ pc = "rw_sleep"
          \/ rwRet = <<Nil>> /\ Cardinality(OnlineSeen) = Cardinality(InstancesSeen)

\* C4 witness: the waiter has returned nil although the agent inventory has
\* an entry that is not Online, next to the one that is.
C4_Witness ==
    /\ rwRet = <<Nil>>
    /\ RwBothAnswered
    /\ Cardinality(InstancesSeen) = 1
    /\ Len(ssmInstances[1]) = 2
    /\ \E k \in DOMAIN ssmInstances[1] : ssmInstances[1][k] # "Online"

\* The events of RunCommand's stages, in the order of the code.
StageOrder ==
    <<Call("waitForTargetInstances"), Return("waitForTargetInstances"),
      Call("SendCommand"), Return("SendCommand"),
      Call("waitForCommandInvocations"), Return("waitForCommandInvocations"),
      Call("printCommandOutput"), Return("printCommandOutput"),
      Call("GetCommand"), Return("GetCommand")>>

\* C5: in RunCommand the stages are called in the order readiness wait,
\* SendCommand, invocation wait, printCommandOutput, GetCommand, each only
\* after the one before it has returned: SendCommand only after the readiness
\* wait returned nil, ListCommandInvocations only after SendCommand returned
\* nil, the S3 calls only after the invocation wait returned, ListCommands only
\* after printCommandOutput returned.
C5_StagesInFixedOrder ==
    entry = "RunCommand" =>
        /\ IsPrefix(stages, StageOrder)
        /\ pc \in RwPcs => Len(stages) = 1
        /\ pc = "SendCommand" => Len(stages) = 3
        /\ pc \in IwPcs => Len(stages) = 5
        /\ pc \in {"printCommandOutput", "print_get"} => Len(stages) = 7
        /\ pc = "GetCommand" => Len(stages) = 9
        /\ calls.SendCommand > 0 => rwRet = <<Nil>>
        /\ (iwCalls.ListCommandInvocations > 0 \/ iwRet # <<>>) => sendRet = <<Nil>>
        /\ (s3Calls # <<>> \/ printRet # <<>> \/ pc = "print_get") =>
              iwRet # <<>> /\ pc \notin IwPcs
        /\ calls.ListCommands > 0 => printRet # <<>> /\ pc = "done"

\* C5 witness: a run of RunCommand through all five stages, with S3 calls made.
C5_Witness ==
    /\ entry = "RunCommand"
    /\ stages = StageOrder
    /\ s3Calls # <<>>
    /\ calls.ListCommands = 1

\* C6: once SendCommand has succeeded, RunCommand calls printCommandOutput
\* exactly once, whether the invocation wait returned nil or an error; if it
\* returned an error RunCommand returns that error with a zero-value record
\* and never calls ListCommands; if it returned nil RunCommand returns what
\* the lookup returns; an error of printCommandOutput is never returned.
C6_OutputCollectedOnceErrorKept ==
    /\ Count(stages, Call("printCommandOutput")) <= 1
    /\ (entry = "RunCommand" /\ sendRet = <<Nil>> /\ pc = "done") =>
          /\ Count(stages, Call("printCommandOutput")) = 1
          /\ Count(stages, Return("printCommandOutput")) = 1
          /\ printRet # <<>>
          /\ iwRet # <<>>
          /\ ret # <<>>
          /\ ~iwRet[1].isNil =>
                /\ ret = <<[cmd |-> ZeroCommand, err |-> iwRet[1]]>>
                /\ calls.ListCommands = 0
          /\ iwRet[1].isNil =>
                /\ calls.ListCommands = 1
                /\ ret[1].err \in {Nil, ErrListCommands}
          /\ ~printRet[1].isNil => ret[1].err # printRet[1]

\* C6 witness: RunCommand has returned the invocation waiter's error after an
\* output collection that failed too.
C6_Witness ==
    /\ entry = "RunCommand"
    /\ pc = "done"
    /\ iwRet # <<>>
    /\ iwRet[1].text = "command invocation %s on %s instance"
    /\ printRet # <<>>
    /\ ~printRet[1].isNil
    /\ ret = <<[cmd |-> ZeroCommand, err |-> iwRet[1]]>>

\* C7: waitForTargetInstances with timeout T that gives up with 'target
\* instances are not online' has made exactly floor(T/10) attempts, each one
\* DescribeInstances call followed by one DescribeInstanceInformation call and
\* one sleep, and never makes more; RunCommand calls it with T = 600 whatever
\* its execution timeout, which makes 60 attempts.
C7_ExactlyFloorAttempts ==
    /\ (entry = "RunCommand" /\ pc # "RunCommand") => rwTimeout = 600
    /\ rwRet = <<ErrNotOnline>> =>
          /\ IsFloorOfTenth(rwCalls.DescribeInstances, rwTimeout)
          /\ rwCalls.DescribeInstanceInformation = rwCalls.DescribeInstances
          /\ rwCalls.Sleep = rwCalls.DescribeInstances
          /\ entry = "RunCommand" => rwCalls.DescribeInstances = 60
    /\ rwCalls.DescribeInstances * 10 <= rwTimeout
    /\ rwCalls.DescribeInstanceInformation <= rwCalls.DescribeInstances
    /\ rwCalls.DescribeInstances <= rwCalls.DescribeInstanceInformation + 1
    /\ (pc \in RwPcs /\ rw_i * 10 + 10 > rwTimeout) => pc = "rw_loop"

\* C7 witness: RunCommand's readiness wait has given up after 60 attempts,
\* with an execution timeout that is not 600.
C7_Witness ==
    /\ entry = "RunCommand"
    /\ executionTimeout = 19
    /\ rwRet = <<ErrNotOnline>>
    /\ rwCalls.DescribeInstances = 60
    /\ rwCalls.Sleep = 60

\* C8: a poll of waitForCommandInvocations that returns an empty list ends in
\* neither success nor an error: the waiter is about to sleep, the poll used
\* one attempt of the floor(timeout/10), and a wait whose every poll returned
\* an empty list ends in 'command invocations timed out' after exactly
\* floor(timeout/10) polls.
C8_EmptyListIsNotYetStarted ==
    /\ output = <<(<<>>)>> =>
          /\ iwRet = <<>>
          /\ pc = "iw_sleep"
          /\ iwCalls.ListCommandInvocations = iw_i + 1
          /\ iwCalls.Sleep = iw_i
          /\ (iw_i + 1) * 10 <= iwTimeout
    /\ (IwInScope /\ iwRet # <<>>
          /\ iwCalls.EmptyResults = iwCalls.ListCommandInvocations) =>
          /\ iwRet = <<ErrTimedOut>>
          /\ IsFloorOfTenth(iwCalls.ListCommandInvocations, iwTimeout)
          /\ iwCalls.Sleep = iwCalls.ListCommandInvocations
    /\ pc = "iw_loop" =>
          iwCalls.Sleep = iw_i /\ iwCalls.ListCommandInvocations = iw_i

\* C8 witness: two polls, both empty, then the timeout error.
C8_Witness ==
    /\ iwRet = <<ErrTimedOut>>
    /\ iwCalls.ListCommandInvocations = 2
    /\ iwCalls.EmptyResults = 2

\* C9: a poll of waitForCommandInvocations whose list is empty, or holds a
\* Pending or InProgress invocation and no Cancelled, TimedOut or Failed one,
\* never ends the wait; a wait whose every poll was followed by a sleep ends
\* in 'command invocations timed out'; and the waiter returns that error only
\* after exactly floor(T/10) polls, each followed by a sleep.
C9_TimeoutAfterExactlyFloorPolls ==
    /\ (output # <<>> /\ (output[1] = <<>> \/ (PendingSeen # {} /\ FailedSeen = {}))) =>
          iwRet = <<>> /\ pc = "iw_sleep"
    /\ (IwInScope /\ iwRet = <<ErrTimedOut>>) =>
          /\ IsFloorOfTenth(iwCalls.ListCommandInvocations, iwTimeout)
          /\ iwCalls.Sleep = iwCalls.ListCommandInvocations
          /\ iw_i = iwCalls.ListCommandInvocations
    /\ (IwInScope /\ iwRet # <<>>
          /\ iwCalls.Sleep = iwCalls.ListCommandInvocations) => iwRet = <<ErrTimedOut>>
    /\ IwInScope => iwCalls.ListCommandInvocations * 10 <= iwTimeout
    /\ (pc \in IwPcs /\ iw_i * 10 + 10 > iwTimeout) => pc = "iw_loop"

\* C9 witness: with timeout 29, one empty poll and one poll with a pending
\* invocation, then the timeout error after two polls.
C9_Witness ==
    /\ iwTimeout = 29
    /\ iwRet = <<ErrTimedOut>>
    /\ iwCalls.ListCommandInvocations = 2
    /\ iwCalls.EmptyResults = 1

\* C10: a failed query ends the waiter at once with that error: after a
\* failed DescribeInstances at attempt k there is no DescribeInstanceInformation
\* call at attempt k, no sleep and no further attempt, likewise after a failed
\* DescribeInstanceInformation or ListCommandInvocations; and when the
\* readiness waiter returned an error RunCommand returns it with a zero-value
\* record and SendCommand is never called.
C10_QueryErrorAbortsWaiter ==
    /\ rwRet = <<ErrDescribeInstances>> =>
          /\ rwCalls.DescribeInstances = rw_i + 1
          /\ rwCalls.DescribeInstanceInformation = rw_i
          /\ rwCalls.Sleep = rw_i
          /\ pc = "done"
    /\ rwRet = <<ErrDescribeInstanceInformation>> =>
          /\ rwCalls.DescribeInstances = rw_i + 1
          /\ rwCalls.DescribeInstanceInformation = rw_i + 1
          /\ rwCalls.Sleep = rw_i
          /\ pc = "done"
    /\ (IwInScope /\ iwRet = <<ErrListCommandInvocations>>) =>
          /\ iwCalls.ListCommandInvocations = iw_i + 1
          /\ iwCalls.Sleep = iw_i
          /\ pc \notin IwPcs
    /\ pc = "rw_info" => ec2Instances # <<>>
    /\ pc = "rw_sleep" => RwBothAnswered
    /\ pc = "iw_sleep" => output # <<>>
    /\ (rwRet # <<>> /\ rwRet # <<Nil>>) =>
          /\ calls.SendCommand = 0
          /\ sendRet = <<>>
          /\ entry = "RunCommand" => ret = <<[cmd |-> ZeroCommand, err |-> rwRet[1]]>>

\* C10 witness: in RunCommand the second attempt's DescribeInstanceInformation
\* has failed and RunCommand has returned that error.
C10_Witness ==
    /\ entry = "RunCommand"
    /\ rw_i = 1
    /\ rwRet = <<ErrDescribeInstanceInformation>>
    /\ ret = <<[cmd |-> ZeroCommand, err |-> ErrDescribeInstanceInformation]>>

\* C11: when SendCommand returns an error RunCommand returns that error with
\* a zero-value record; SendCommand was called once, and there is no
\* ListCommandInvocations call, no call of printCommandOutput, no S3 call and
\* no ListCommands call.
C11_SendErrorEndsRunCommand ==
    /\ calls.SendCommand <= 1
    /\ (sendRet # <<>> /\ sendRet # <<Nil>>) =>
          /\ pc = "done"
          /\ ret = <<[cmd |-> ZeroCommand, err |-> sendRet[1]]>>
          /\ calls.SendCommand = 1
          /\ iwCalls.ListCommandInvocations = 0
          /\ iwRet = <<>>
          /\ printRet = <<>>
          /\ s3Calls = <<>>
          /\ logged = <<>>
          /\ calls.ListCommands = 0
          /\ stages = SubSeq(StageOrder, 1, 4)

\* C11 witness: SendCommand has failed after a readiness wait of two attempts
\* and RunCommand is done.
C11_Witness ==
    /\ entry = "RunCommand"
    /\ sendRet = <<ErrSendCommand>>
    /\ pc = "done"
    /\ ret = <<[cmd |-> ZeroCommand, err |-> ErrSendCommand]>>

\* The pieces logged in the last iteration of printCommandOutput's loop.
LastChunks == logged[Len(logged)].chunks

\* The last iteration of printCommandOutput's loop read a content.
MsgRead == pc \in {"print_get", "GetCommand", "done"} /\ msg # <<>>

\* ceil(a / b) for a >= 0, b > 0
CeilDiv(a, b) == (a + b - 1) \div b

\* Every piece but the last has maxLogMsgSize bytes, the last has
\* Len(m) % maxLogMsgSize bytes.
ChunkLengthsOf(m, chunks) ==
    /\ \A i \in 1..(Len(chunks) - 1) : Len(chunks[i]) = maxLogMsgSize
    /\ Len(chunks[Len(chunks)]) = Len(m) % maxLogMsgSize

\* C12 as stated: a content of L bytes is logged in ceil(L/C) pieces, all but
\* the last of C bytes, the last of L mod C bytes.
C12_CeilChunks ==
    MsgRead =>
        /\ logged # <<>>
        /\ Len(LastChunks) = CeilDiv(Len(msg[1]), maxLogMsgSize)
        /\ ChunkLengthsOf(msg[1], LastChunks)

\* C12 amended: a content of L bytes is logged in floor(L/C) + 1 pieces, all
\* but the last of C bytes, the last of L mod C bytes (an empty piece when L
\* is a multiple of C, L = 0 included).
C12_FloorPlusOneChunks ==
    MsgRead =>
        /\ logged # <<>>
        /\ Len(LastChunks) = (Len(msg[1]) \div maxLogMsgSize) + 1
        /\ ChunkLengthsOf(msg[1], LastChunks)

\* C12 witness: a content of two full pieces was logged, with an empty last
\* piece.
C12_Witness ==
    /\ MsgRead
    /\ Len(msg[1]) = 2 * maxLogMsgSize
    /\ Len(LastChunks) = 3
    /\ LastChunks[3] = <<>>

\* The pieces of a sequence of pieces, joined in order.
RECURSIVE Concat(_)
Concat(chunks) ==
    IF chunks = <<>> THEN <<>> ELSE Head(chunks) \o Concat(Tail(chunks))

\* C20: the pieces logged for a content, joined in the order they were
\* logged, are the content, and no piece has more than maxLogMsgSize bytes.
C20_ChunksRebuildContent ==
    MsgRead =>
        /\ logged # <<>>
        /\ Concat(LastChunks) = msg[1]
        /\ \A i \in DOMAIN LastChunks : Len(LastChunks[i]) <= maxLogMsgSize

\* C20 witness: a content of two full pieces and one more byte was logged in
\* three pieces.
C20_Witness ==
    /\ MsgRead
    /\ Len(msg[1]) = 2 * maxLogMsgSize + 1
    /\ Len(LastChunks) = 3
    /\ Concat(LastChunks) = msg[1]

\* printCommandOutput was called without a bucket / with one.
NoBucket == printArgs # <<>> /\ printArgs[1].s3Bucket \in {<<>>, <<"">>}
WithBucket == printArgs # <<>> /\ printArgs[1].s3Bucket \notin {<<>>, <<"">>}

\* The keys of the GetObject calls made, in order.
GetObjectKeys ==
    LET gets == SelectSeq(s3Calls, LAMBDA c : c.api = "GetObject")
    IN  [k \in DOMAIN gets |-> gets[k].key]

\* C14: with a nil or empty bucket printCommandOutput returns success and
\* calls neither GetBucketLocation nor ListObjectsV2 nor GetObject.
C14_NoBucketNoS3Call ==
    NoBucket =>
        /\ printRet = <<Nil>>
        /\ pc # "print_get"
        /\ s3Calls = <<>>
        /\ logged = <<>>

\* C14 witness: printCommandOutput has returned for an empty bucket name
\* while S3 would have listed objects.
C14_Witness ==
    /\ printArgs # <<>>
    /\ printArgs[1].s3Bucket = <<"">>
    /\ listed[1].fails = ""
    /\ listed[1].n > 0
    /\ printRet = <<Nil>>
    /\ s3Calls = <<>>

\* The error of a failure before the loop over the objects.
ListingError(fails) ==
    CASE fails = "GetBucketLocation" -> ErrGetBucketLocation
      [] fails = "LoadDefaultConfig" -> ErrLoadDefaultConfig
      [] fails = "ListObjectsV2" -> ErrListObjectsV2
      [] fails = "" -> Nil

\* C15: with a bucket, printCommandOutput returns an error exactly when the
\* region lookup, the configuration load or the listing fails, the error is
\* that failure's, and then no object is fetched.  A GetObject failure does
\* not end the loop: the objects are fetched in the order of the listing,
\* all of them once the function has returned, and it returns success.
C15_OnlyListingErrorsAreFatal ==
    WithBucket =>
        /\ (listed[1].fails # "") =>
              /\ printRet = <<ListingError(listed[1].fails)>>
              /\ printRet # <<Nil>>
              /\ GetObjectKeys = <<>>
              /\ pc # "print_get"
        /\ (listed[1].fails = "") =>
              /\ printRet \in {<<>>, <<Nil>>}
              /\ IsPrefix(GetObjectKeys, objects)
              /\ Len(GetObjectKeys) = Len(fetched)
              /\ Len(objects) = listed[1].n
              /\ printRet = <<>> <=> pc = "print_get"
              /\ printRet = <<Nil>> => GetObjectKeys = objects

\* C15 witness: the first of two GetObject calls failed, the second object
\* was fetched and logged, and printCommandOutput returned success.
C15_Witness ==
    /\ WithBucket
    /\ Len(objects) = 2
    /\ Len(fetched) = 2
    /\ ~fetched[1].get
    /\ fetched[2].get /\ fetched[2].read
    /\ GetObjectKeys = objects
    /\ Len(logged) = 1
    /\ logged[1].key = objects[2]
    /\ printRet = <<Nil>>

\* C16: GetCommand calls ListCommands once and returns the first record of
\* the answer without error, a zero-value record without error when the
\* answer has no record, and a zero-value record with the error when the call
\* fails.  RunCommand's result after the lookup is the lookup's, and a
\* successful result of RunCommand always comes from the lookup.
C16_GetCommandReturnsFirstRecord ==
    /\ calls.ListCommands <= 1
    /\ commands # <<>> =>
          /\ calls.ListCommands = 1
          /\ pc = "done"
          /\ ~commands[1].ok =>
                ret = <<[cmd |-> ZeroCommand, err |-> ErrListCommands]>>
          /\ (commands[1].ok /\ commands[1].commands = <<>>) =>
                ret = <<[cmd |-> ZeroCommand, err |-> Nil]>>
          /\ (commands[1].ok /\ commands[1].commands # <<>>) =>
                ret = <<[cmd |-> Head(commands[1].commands), err |-> Nil]>>
    /\ (entry = "RunCommand" /\ pc = "done" /\ ret[1].err = Nil) =>
          /\ commands # <<>>
          /\ calls.ListCommands = 1
          /\ stages[Len(stages)] = Return("GetCommand")

\* C16 witness: RunCommand has returned the first of two records that
\* ListCommands answered, which differs from the second.
C16_Witness ==
    /\ entry = "RunCommand"
    /\ pc = "done"
    /\ commands # <<>>
    /\ commands[1].ok
    /\ Len(commands[1].commands) = 2
    /\ commands[1].commands[1] # commands[1].commands[2]
    /\ ret = <<[cmd |-> commands[1].commands[1], err |-> Nil]>>

\* The invocation wait runs, or will run, with a timeout below sleepTime.
ShortInvocationTimeout ==
    \/ entry = "RunCommand" /\ executionTimeout < sleepTime
    \/ entry = "waitForCommandInvocations" /\ iwTimeout < sleepTime

\* C18: with a timeout T, 0 <= T < 10, waitForCommandInvocations makes no
\* poll: it returns 'command invocations timed out' without a
\* ListCommandInvocations call and without a sleep, and RunCommand with such
\* an executionTimeout returns that error after it has sent the command.
C18_ShortTimeoutNeverPolls ==
    ShortInvocationTimeout =>
        /\ iwCalls.ListCommandInvocations = 0
        /\ iwCalls.Sleep = 0
        /\ output = <<>>
        /\ pc # "iw_sleep"
        /\ iwRet \in {<<>>, <<ErrTimedOut>>}
        /\ (entry = "waitForCommandInvocations" /\ pc = "done") =>
              iwRet = <<ErrTimedOut>>
        /\ (entry = "RunCommand" /\ pc = "done" /\ sendRet = <<Nil>>) =>
              /\ iwRet = <<ErrTimedOut>>
              /\ ret = <<[cmd |-> ZeroCommand, err |-> ErrTimedOut]>>
              /\ calls.SendCommand = 1
              /\ calls.ListCommands = 0

\* C18 witness: RunCommand with executionTimeout 9 has sent the command and
\* returned the timeout error.
C18_Witness ==
    /\ entry = "RunCommand"
    /\ executionTimeout = sleepTime - 1
    /\ pc = "done"
    /\ sendRet = <<Nil>>
    /\ calls.SendCommand = 1
    /\ ret = <<[cmd |-> ZeroCommand, err |-> ErrTimedOut]>>

\* C19: when waitForTargetInstances returns nil, at least one entry of the
\* agent inventory it observed last is Online, so SendCommand is never
\* reached while no target is online.
C19_SuccessMeansSomeOnline ==
    (rwRet = <<Nil>> /\ RwBothAnswered) => OnlineSeen # {}

\* RunCommand has built its filters.
FiltersBuilt == entry = "RunCommand" /\ pc # "RunCommand"

\* The shape of the two filter lists that C13 states, without the names of
\* the compute filters of the targets: ssmFilters has the keys and values of
\* the targets in their order, ec2Filters has one entry more, with the values
\* of the targets in their order and the state filter last.
FilterListsFollowTargets ==
    /\ Len(ssmFilters) = Len(ssmTargets)
    /\ \A i \in DOMAIN ssmTargets :
          /\ ssmFilters[i].Key = ssmTargets[i].Key
          /\ ssmFilters[i].Values = ssmTargets[i].Values
          /\ ec2Filters[i].Values = ssmTargets[i].Values
    /\ Len(ec2Filters) = Len(ssmTargets) + 1
    /\ ec2Filters[Len(ec2Filters)] =
          [Name |-> "instance-state-name", Values |-> <<"pending", "running">>]

\* The keys that are InstanceIds but for the case of their letters.
InstanceIdsKeys == {"InstanceIds", "instanceids", "INSTANCEIDS"}

\* SendCommand was called with the targets RunCommand was called with.
SendGetsOriginalTargets == calls.SendCommand > 0 => sendTargets = <<ssmTargets>>

\* C13 as stated: the filter lists follow the targets, the compute filter of
\* a target has the target's key as its name, but instance-id when the key is
\* InstanceIds; SendCommand gets the original targets.
C13_OnlyInstanceIdsRenamed ==
    /\ FiltersBuilt =>
          /\ FilterListsFollowTargets
          /\ \A i \in DOMAIN ssmTargets :
                ec2Filters[i].Name = IF ssmTargets[i].Key = "InstanceIds"
                                     THEN "instance-id" ELSE ssmTargets[i].Key
    /\ SendGetsOriginalTargets

\* C13 amended: the filter lists follow the targets, the compute filter of a
\* target has the target's key as its name, but instance-id when the key is
\* InstanceIds in any case of its letters; SendCommand gets the original
\* targets.
C13_InstanceIdsRenamedIgnoringCase ==
    /\ FiltersBuilt =>
          /\ FilterListsFollowTargets
          /\ \A i \in DOMAIN ssmTargets :
                ec2Filters[i].Name = IF ssmTargets[i].Key \in InstanceIdsKeys
                                     THEN "instance-id" ELSE ssmTargets[i].Key
    /\ SendGetsOriginalTargets

\* C13 witness: SendCommand was called with two targets, the first with the
\* key INSTANCEIDS, after the compute filters instance-id, tag:name and
\* instance-state-name were built.
C13_Witness ==
    /\ FiltersBuilt
    /\ Len(ssmTargets) = 2
    /\ ssmTargets[1].Key = "INSTANCEIDS"
    /\ ec2Filters[1].Name = "instance-id"
    /\ ec2Filters[2].Name = "tag:name"
    /\ Len(ec2Filters) = 3
    /\ ssmFilters[1].Key = "INSTANCEIDS"
    /\ sendTargets = <<ssmTargets>>

\* The configuration has exactly one assume_role block, and it is empty.
OneEmptyBlock ==
    /\ entry = "configure"
    /\ Len(assume_role) = 1
    /\ (assume_role[1].isNil \/ ~assume_role[1].has_role_arn \/ assume_role[1].role_arn = "")

\* C17: with exactly one assume_role block that is empty (nil, or without
\* role_arn, or with an empty role_arn) configure does not return the
\* role_arn error and, when it returns clients, no role was assumed;
\* configure returns 'Only 1 assume_role is supported' exactly when more than
\* one block was expanded.
C17_EmptyAssumeRoleBlockAllowed ==
    configured # <<>> =>
        /\ OneEmptyBlock =>
              /\ configured[1].err \in {"", "LoadDefaultConfig failed"}
              /\ configured[1].clients # <<>> => configured[1].clients[1].assumed = <<>>
        /\ configured[1].err = "Only 1 assume_role is supported" <=> Len(assumeRole) > 1

\* The calls RunCommand has made stay within their bounds: one SendCommand,
\* 60 attempts of the readiness waiter, floor(executionTimeout / 10)
\* ListCommandInvocations calls, one ListCommands.
CallsWithinBounds ==
    /\ calls.SendCommand <= 1
    /\ rwCalls.DescribeInstances <= 60
    /\ rwCalls.DescribeInstanceInformation <= rwCalls.DescribeInstances
    /\ rw_i <= 60
    /\ iwCalls.ListCommandInvocations * 10 <= executionTimeout
    /\ calls.ListCommands <= 1

\* C21: every execution of RunCommand in which every external call returns
\* terminates, and at every moment it has called SendCommand at most once,
\* made at most 60 readiness attempts, at most floor(executionTimeout / 10)
\* ListCommandInvocations calls and at most one ListCommands call.
C21_RunCommandTerminatesWithinBounds ==
    /\ [](entry = "RunCommand" => CallsWithinBounds)
    /\ <>(pc = "done" /\ ret # <<>>)

\* C21 witness: RunCommand with an executionTimeout of MaxPolls intervals and
\* nine seconds has returned after the timeout of the invocation wait.
C21_Witness ==
    /\ entry = "RunCommand"
    /\ executionTimeout = MaxPolls * sleepTime + sleepTime - 1
    /\ pc = "done"
    /\ calls.SendCommand = 1
    /\ iwRet = <<ErrTimedOut>>
    /\ ret = <<[cmd |-> ZeroCommand, err |-> ErrTimedOut]>>

====
